---- MODULE Spec2Model ----
(***************************************************************************)
(* Model of the iblrig behavioural-rig scripts:                            *)
(*   - the Bpod state machines composed by the habituation and passive     *)
(*     protocols and their execution by the device controller,             *)
(*   - the session parameter derivation (adaptive reward / gain),          *)
(*   - the settings / code archival pipeline (json append, zip, rmtree),   *)
(*   - the update.py command dispatcher,                                   *)
(*   - the deserialisation of the pybpod user settings,                    *)
(*   - the session order carried from one session to the next.             *)
(* Each part has its own specification; the variables of the other parts   *)
(* stay at their idle values.                                              *)
(***************************************************************************)
EXTENDS Integers, Sequences, FiniteSets, TLC

VARIABLES
    \* ---- Bpod state machines (habituationChoiceWorld / passiveChoiceWorld)
    protocol,     \* "habituation" | "passive" | "none"
    smPc,         \* position of the protocol script
    loopsLeft,    \* remaining iterations of the protocol's main loop
    tph,          \* trial parameters drawn by tph.next_trial()
    sid,          \* passive: the current stimulus id
    sma,          \* the StateMachine under construction (sequence of states)
    sent,         \* the machine last sent to the device
    cur,          \* device: current state name
    timer,        \* device: ticks left on the current state's timer
    tupFired,     \* device: the current state's Tup event has been emitted
    entered,      \* device: states entered in this run, in order
    leftOn,       \* device: the event on which each entered state was left
    valveLog,     \* device: states on whose entry Valve1 was opened, this run
    lastEvent,    \* device: last event seen
    \* ---- session_param_handler.__init__ (two sessions, one after the other)
    sphPc,              \* position inside __init__ of the session being built
    session,            \* which session is being initialised (1 or 2)
    task_settings,      \* the imported task settings
    PREVIOUS_DATA_FILE, \* per session: the previous session's data file
    LAST_TRIAL_DATA,    \* per session: result of _load_last_trial
    REWARD_AMOUNT,      \* per session: result of _init_reward
    STIM_GAIN,          \* per session: result of _init_stim_gain
    \* ---- save_task_code / save_video_code / _save_task_code
    variant,      \* which of the three functions runs
    zPc,          \* position inside the function
    fsDirs,       \* directories directly under the session folder (paths)
    fsFiles,      \* files anywhere inside those directories (paths)
    fsRegular,    \* regular files directly under the session folder (paths)
    codeDirs,     \* the list of folders to zip, in os.listdir order
    zipIdx,       \* zipit: folders already passed to zipdir
    rmIdx,        \* folders already passed to shutil.rmtree
    zipf,         \* the zip file: state absent / open / closed, and entries
    regular0,     \* history: fsRegular when the function was entered
    removed,      \* history: the files deleted by shutil.rmtree
    \* ---- save_session_settings
    setPc,        \* position inside save_session_settings
    sph,          \* the session object being serialised
    settingsFile, \* SETTINGS_FILE_PATH: the JSON documents written so far
    save_this,    \* local: the dumped text, then its parsed value
    settings,     \* local: outcome of raw.load_settings(SESSION_FOLDER)
    saves,        \* calls of save_session_settings made so far
    \* ---- update.py
    argv,         \* sys.argv[1:]
    uPc,          \* index of the next call of the selected branch
    uStatus,      \* "running", "done", or the exception that ended the run
    repo,         \* the checkout: HEAD, submodules, local changes, stash,
                  \* files checked out from origin, pybpod_projects, backups
    repo0,        \* history: repo when update.py was started
    ops,          \* history: the commands run, in order
    local_tasks,  \* task folders present in pybpod_projects/IBL/tasks
    tag,          \* the tag pointing at HEAD ("" when untagged)
    task_files,   \* __main__: the list returned by get_tasks
    \* ---- deserialize_pybpod_user_settings / deserialize_session_user_settings
    caller,       \* "iotasks" | "session_params" | "none": which of the two
    dPc,          \* position in the function
    dExc,         \* the exception that ended the call ("" when none)
    PYBPOD_CREATOR,        \* sph.PYBPOD_CREATOR
    PYBPOD_USER_EXTRA,     \* sph.PYBPOD_USER_EXTRA
    PYBPOD_SUBJECTS,       \* sph.PYBPOD_SUBJECTS
    PYBPOD_SUBJECT_EXTRA,  \* sph.PYBPOD_SUBJECT_EXTRA
    subjects0,    \* history: PYBPOD_SUBJECTS when the function was called
    subject_extra0,  \* history: PYBPOD_SUBJECT_EXTRA when it was called
    errors,       \* the error messages logged or printed, in order
    spc_subject,  \* __init__: the subject passed to SessionPathCreator
    \* ---- load_session_order_idx, one call per session
    oPc,          \* "idle" | "call" | "returned"
    last_settings_data,  \* the argument: the previous session's settings
    session_order,  \* the local session_order (None while unbound)
    session_idx,  \* the local session_idx (None while unbound)
    carried,      \* history: the argument is what the previous call's
                  \* session saved
    calls         \* history: the pairs returned so far, one per session

smVars == <<protocol, smPc, loopsLeft, tph, sid, sma, sent, cur, timer,
            tupFired, entered, leftOn, valveLog, lastEvent>>

sphVars == <<sphPc, session, task_settings, PREVIOUS_DATA_FILE,
             LAST_TRIAL_DATA, REWARD_AMOUNT, STIM_GAIN>>

zipVars == <<variant, zPc, fsDirs, fsFiles, fsRegular, codeDirs, zipIdx,
             rmIdx, zipf, regular0, removed>>

setVars == <<setPc, sph, settingsFile, save_this, settings, saves>>

updVars == <<argv, uPc, uStatus, repo, repo0, ops, local_tasks, tag, task_files>>

desVars == <<caller, dPc, dExc, PYBPOD_CREATOR, PYBPOD_USER_EXTRA,
             PYBPOD_SUBJECTS, PYBPOD_SUBJECT_EXTRA, subjects0, subject_extra0,
             errors, spc_subject>>

ordVars == <<oPc, last_settings_data, session_order, session_idx, carried,
             calls>>

vars == <<smVars, sphVars, zipVars, setVars, updVars, desVars, ordVars>>

\* What the steps of one part leave alone: the variables of the other parts
FrameSM == UNCHANGED <<sphVars, zipVars, setVars, updVars, desVars, ordVars>>
FrameSPH == UNCHANGED <<smVars, zipVars, setVars, updVars, desVars, ordVars>>
FrameZip == UNCHANGED <<smVars, sphVars, setVars, updVars, desVars, ordVars>>
FrameSet == UNCHANGED <<smVars, sphVars, zipVars, updVars, desVars, ordVars>>
FrameUpd == UNCHANGED <<smVars, sphVars, zipVars, setVars, desVars, ordVars>>
FrameDes == UNCHANGED <<smVars, sphVars, zipVars, setVars, updVars, ordVars>>
FrameOrd == UNCHANGED <<smVars, sphVars, zipVars, setVars, updVars, desVars>>

\* ------------------------------------------------------------------ bounds
MaxLoops == 2
MaxTimer == 1
MaxFileLen == 2
MaxDepth == 2
MaxSaves == 2
MaxStash == 1
MaxSubjects == 2
MaxSessions == 3
MaxOrderLen == 2

\* ======================================================================
\* Bpod state machines
\* ======================================================================
rotary_encoder_reset == 1
re_stop_stim == rotary_encoder_reset + 1
re_show_stim == rotary_encoder_reset + 2
re_show_center == rotary_encoder_reset + 3

\* tph.out_tone: the soft-code output action that plays the go tone
out_tone == <<"SoftCode", 1>>

\* messages built by BpodMessageCreator.sound_card_play_idx
sc_play_tone == 2
sc_play_noise == 3

\* Events the device can see besides Tup
InputEvents == {"BNC1High", "BNC2Low", "Port1In"}

StimIds == {"V", "T", "N", "G"}

NoTph == [delay_to_stim_center |-> 0, reward_valve_time |-> 0, iti |-> 0]

State(name, t, cond, out) ==
    [state_name |-> name, state_timer |-> t,
     state_change_conditions |-> cond, output_actions |-> out]

\* Variant of HabituationStates: stim_on goes straight to reward
HabituationStatesSkipCenter(p) == <<
    State("trial_start", 2, {<<"Tup", "stim_on">>},
          <<(<<"Serial1", re_stop_stim>>)>>),
    State("stim_on", p.delay_to_stim_center, {<<"Tup", "reward">>},
          <<(<<"Serial1", re_show_stim>>), out_tone>>),
    State("stim_center", 1, {<<"Tup", "reward">>},
          <<(<<"Serial1", re_show_center>>)>>),
    State("reward", p.reward_valve_time, {<<"Tup", "iti">>},
          <<(<<"Valve1", 255>>)>>),
    State("iti", p.iti, {<<"Tup", "exit">>}, <<>>) >>

\* The five add_state calls of the habituation main loop, in order.
\* Timers are in ticks of 0.5 s.
HabituationStates(p) == <<
    State("trial_start", 2, {<<"Tup", "stim_on">>},
          <<(<<"Serial1", re_stop_stim>>)>>),
    State("stim_on", p.delay_to_stim_center, {<<"Tup", "stim_center">>},
          <<(<<"Serial1", re_show_stim>>), out_tone>>),
    State("stim_center", 1, {<<"Tup", "reward">>},
          <<(<<"Serial1", re_show_center>>)>>),
    State("reward", p.reward_valve_time, {<<"Tup", "iti">>},
          <<(<<"Valve1", 255>>)>>),
    State("iti", p.iti, {<<"Tup", "exit">>}, <<>>) >>

\* do_valve_click: one state, valve_open -> exit
ValveClickStates(reward_valve_time) == <<
    State("valve_open", reward_valve_time, {<<"Tup", "exit">>},
          <<(<<"Valve1", 255>>), (<<"BNC1", 255>>)>>) >>

\* Variant of BpodSoundStates: play_tone also leaves on its timer
BpodSoundStatesBranching(sound_msg) == <<
    State("play_tone", 0, {<<"BNC2Low", "exit">>, <<"Tup", "exit">>},
          <<(<<"Serial3", sound_msg>>)>>) >>

\* do_bpod_sound: one state, play_tone -> exit on BNC2Low
BpodSoundStates(sound_msg) == <<
    State("play_tone", 0, {<<"BNC2Low", "exit">>},
          <<(<<"Serial3", sound_msg>>)>>) >>

\* The states the running script is going to add to its StateMachine
Planned ==
    IF protocol = "habituation" THEN HabituationStates(tph)
    ELSE IF sid = "V" THEN ValveClickStates(tph.reward_valve_time)
    ELSE IF sid = "T" THEN BpodSoundStates(sc_play_tone)
    ELSE BpodSoundStates(sc_play_noise)

Range(s) == {s[i] : i \in 1..Len(s)}

StateNamed(m, n) == CHOOSE s \in Range(m) : s.state_name = n

Events(s) == {c[1] : c \in s.state_change_conditions}

Target(s, e) == (CHOOSE c \in s.state_change_conditions : c[1] = e)[2]

OpensValve(s) == <<"Valve1", 255>> \in Range(s.output_actions)

\* --- script steps -----------------------------------------------------
\* habituation: tph.next_trial() at the top of the main loop
NextTrial ==
    /\ FrameSM
    /\ protocol = "habituation" /\ smPc = "loop" /\ loopsLeft > 0
    /\ \E d \in 0..MaxTimer, v \in 0..MaxTimer, i \in 0..MaxTimer :
          tph' = [delay_to_stim_center |-> d, reward_valve_time |-> v, iti |-> i]
    /\ loopsLeft' = loopsLeft - 1
    /\ sma' = <<>>
    /\ smPc' = "build"
    /\ UNCHANGED <<protocol, sid, sent, cur, timer, tupFired, entered, leftOn,
                   valveLog, lastEvent>>

\* passive: next (sdel, sid) of zip(STIM_DELAYS, STIM_IDS); V, T, N start a
\* state machine
NextStim ==
    /\ FrameSM
    /\ protocol = "passive" /\ smPc = "loop" /\ loopsLeft > 0
    /\ \E s \in StimIds \ {"G"} : sid' = s
    /\ loopsLeft' = loopsLeft - 1
    /\ sma' = <<>>
    /\ smPc' = "build"
    /\ UNCHANGED <<protocol, tph, sent, cur, timer, tupFired, entered, leftOn,
                   valveLog, lastEvent>>

\* passive: sid == 'G' shows a gabor over OSC; no state machine is built
DoGabor ==
    /\ FrameSM
    /\ protocol = "passive" /\ smPc = "loop" /\ loopsLeft > 0
    /\ sid' = "G"
    /\ loopsLeft' = loopsLeft - 1
    /\ UNCHANGED <<protocol, smPc, tph, sma, sent, cur, timer, tupFired,
                   entered, leftOn, valveLog, lastEvent>>

\* sma.add_state(...)
AddState ==
    /\ FrameSM
    /\ smPc = "build" /\ Len(sma) < Len(Planned)
    /\ sma' = Append(sma, Planned[Len(sma) + 1])
    /\ UNCHANGED <<protocol, smPc, loopsLeft, tph, sid, sent, cur, timer,
                   tupFired, entered, leftOn, valveLog, lastEvent>>

\* bpod.send_state_machine(sma)
SendStateMachine ==
    /\ FrameSM
    /\ smPc = "build" /\ Len(sma) = Len(Planned)
    /\ sent' = sma
    /\ smPc' = "sent"
    /\ UNCHANGED <<protocol, loopsLeft, tph, sid, sma, cur, timer, tupFired,
                   entered, leftOn, valveLog, lastEvent>>

\* The device enters state n of the sent machine: its outputs are applied
\* and its timer starts.
Enter(n) ==
    /\ cur' = n
    /\ entered' = Append(entered, n)
    /\ IF n = "exit"
         THEN /\ timer' = 0
              /\ valveLog' = valveLog
         ELSE /\ timer' = StateNamed(sent, n).state_timer
              /\ valveLog' = IF OpensValve(StateNamed(sent, n))
                               THEN Append(valveLog, n) ELSE valveLog
    /\ tupFired' = FALSE

\* bpod.run_state_machine(sma): the run starts in the first state added
RunStateMachine ==
    /\ FrameSM
    /\ smPc = "sent"
    /\ entered = <<>> /\ valveLog = <<>> /\ leftOn = <<>>
    /\ Enter(sent[1].state_name)
    /\ leftOn' = <<>>
    /\ smPc' = "running"
    /\ lastEvent' = "none"
    /\ UNCHANGED <<protocol, loopsLeft, tph, sid, sma, sent>>

\* An event e reaches the device in state cur: the state is left when e is
\* one of its change conditions, otherwise the event is ignored.
Deliver(e) ==
    /\ lastEvent' = e
    /\ IF e \in Events(StateNamed(sent, cur))
         THEN /\ Enter(Target(StateNamed(sent, cur), e))
              /\ leftOn' = Append(leftOn, e)
         ELSE /\ UNCHANGED <<cur, entered, valveLog, leftOn, timer>>
              /\ tupFired' = (tupFired \/ e = "Tup")

Tick ==
    /\ FrameSM
    /\ smPc = "running" /\ cur # "exit" /\ timer > 0
    /\ timer' = timer - 1
    /\ UNCHANGED <<protocol, smPc, loopsLeft, tph, sid, sma, sent, cur,
                   tupFired, entered, leftOn, valveLog, lastEvent>>

Tup ==
    /\ FrameSM
    /\ smPc = "running" /\ cur # "exit" /\ timer = 0 /\ ~tupFired
    /\ Deliver("Tup")
    /\ UNCHANGED <<protocol, smPc, loopsLeft, tph, sid, sma, sent>>

InputEvent ==
    /\ FrameSM
    /\ smPc = "running" /\ cur # "exit"
    /\ \E e \in InputEvents : Deliver(e)
    /\ UNCHANGED <<protocol, smPc, loopsLeft, tph, sid, sma, sent>>

\* run_state_machine returns once 'exit' is reached; the script goes on to
\* tph.trial_completed (habituation) or returns from do_* (passive)
RunReturns ==
    /\ FrameSM
    /\ smPc = "running" /\ cur = "exit"
    /\ smPc' = "ran"
    /\ UNCHANGED <<protocol, loopsLeft, tph, sid, sma, sent, cur, timer,
                   tupFired, entered, leftOn, valveLog, lastEvent>>

\* end of the loop body: back to the top of the loop
LoopBack ==
    /\ FrameSM
    /\ smPc = "ran"
    /\ smPc' = "loop"
    /\ cur' = "none"
    /\ entered' = <<>> /\ leftOn' = <<>> /\ valveLog' = <<>>
    /\ UNCHANGED <<protocol, loopsLeft, tph, sid, sma, sent, timer, tupFired,
                   lastEvent>>

\* bpod.close() after the habituation loop / create_flag after the passive one
ProtocolEnds ==
    /\ FrameSM
    /\ smPc = "loop" /\ loopsLeft = 0
    /\ smPc' = "closed"
    /\ UNCHANGED <<protocol, loopsLeft, tph, sid, sma, sent, cur, timer,
                   tupFired, entered, leftOn, valveLog, lastEvent>>

IdleSM ==
    /\ protocol = "none" /\ smPc = "idle" /\ loopsLeft = 0 /\ tph = NoTph
    /\ sid = "none" /\ sma = <<>> /\ sent = <<>> /\ cur = "none" /\ timer = 0
    /\ tupFired = FALSE /\ entered = <<>> /\ leftOn = <<>> /\ valveLog = <<>>
    /\ lastEvent = "none"

InitSM ==
    /\ protocol \in {"habituation", "passive"}
    /\ smPc = "loop"
    /\ loopsLeft \in 1..MaxLoops
    /\ tph \in [delay_to_stim_center : {0}, reward_valve_time : 0..MaxTimer,
                iti : {0}]
    /\ sid = "none" /\ sma = <<>> /\ sent = <<>> /\ cur = "none" /\ timer = 0
    /\ tupFired = FALSE /\ entered = <<>> /\ leftOn = <<>> /\ valveLog = <<>>
    /\ lastEvent = "none"

NextSM ==
    \/ NextTrial
    \/ NextStim
    \/ DoGabor
    \/ AddState
    \/ SendStateMachine
    \/ RunStateMachine
    \/ Tick
    \/ Tup
    \/ InputEvent
    \/ RunReturns
    \/ LoopBack
    \/ ProtocolEnds

\* ======================================================================
\* Session parameter derivation (trainingChoiceWorld/session_params.py)
\* ======================================================================
None == <<>>
Some(x) == <<x>>

\* Numbers are exact rationals <<numerator, denominator>> in lowest terms
RECURSIVE Gcd(_, _)
Gcd(a, b) == IF b = 0 THEN a ELSE Gcd(b, a % b)

Rat(n) == <<n, 1>>

\* Python's a / b for b # 0 (true division)
TrueDiv(a, b) == <<a \div Gcd(a, b), b \div Gcd(a, b)>>

\* trial_num at which the adaptive gain drops to AG_MIN_VALUE
GainTrialThreshold == 200

\* One line of a previous session's data file
TrialRecords ==
    [trial_num : {GainTrialThreshold - 1, GainTrialThreshold},
     reward : {[valve_time |-> 2, calibration |-> 4],
               [valve_time |-> 3, calibration |-> 1]}]

reward_valve_time(rec) == rec.reward.valve_time
reward_calibration(rec) == rec.reward.calibration

FilesUpTo(n) == UNION {[1..k -> TrialRecords] : k \in 0..n}

\* PREVIOUS_DATA_FILE is None, or a file of JSON lines
DataFiles == {None} \cup {Some(f) : f \in FilesUpTo(MaxFileLen)}

TaskSettings ==
    [ADAPTIVE_REWARD : BOOLEAN, REWARD_AMOUNT : {1, 3}, AR_INIT_VALUE : {5},
     CALIBRATION_VALUE : {7},
     ADAPTIVE_GAIN : BOOLEAN, STIM_GAIN : {6}, AG_INIT_VALUE : {8},
     AG_MIN_VALUE : {4}]

Sessions == {1, 2}

\* Variant of LoadLastTrial: the first line instead of the last (i=0)
LoadFirstTrial(file) ==
    IF file = None THEN [outcome |-> "return", value |-> None]
    ELSE LET trial_data == file[1] IN
         IF trial_data = <<>> THEN [outcome |-> "IndexError", value |-> None]
         ELSE [outcome |-> "return", value |-> Some(trial_data[1])]

\* _load_last_trial(i=-1): the outcome for a data file
\*   "return"     with the value returned (None or the last line), or
\*   "IndexError" when the file has no line (trial_data[i] in the print)
LoadLastTrial(file) ==
    IF file = None THEN [outcome |-> "return", value |-> None]
    ELSE LET trial_data == file[1] IN
         IF trial_data = <<>> THEN [outcome |-> "IndexError", value |-> None]
         ELSE [outcome |-> "return",
               value |-> Some(trial_data[Len(trial_data)])]

\* Variant of InitReward: divides by the rig's CALIBRATION_VALUE
InitRewardRigCalibration(ts, last) ==
    IF ~ts.ADAPTIVE_REWARD THEN Rat(ts.REWARD_AMOUNT)
    ELSE IF last = None THEN Rat(ts.AR_INIT_VALUE)
    ELSE TrueDiv(reward_valve_time(last[1]), ts.CALIBRATION_VALUE)

\* _init_reward
InitReward(ts, last) ==
    IF ~ts.ADAPTIVE_REWARD THEN Rat(ts.REWARD_AMOUNT)
    ELSE IF last = None THEN Rat(ts.AR_INIT_VALUE)
    ELSE TrueDiv(reward_valve_time(last[1]), reward_calibration(last[1]))

\* Variant of InitStimGain: strictly more than the threshold
InitStimGainStrict(ts, last) ==
    IF ~ts.ADAPTIVE_GAIN THEN ts.STIM_GAIN
    ELSE IF last # None /\ last[1].trial_num > GainTrialThreshold
         THEN ts.AG_MIN_VALUE
         ELSE ts.AG_INIT_VALUE

\* _init_stim_gain
InitStimGain(ts, last) ==
    IF ~ts.ADAPTIVE_GAIN THEN ts.STIM_GAIN
    ELSE IF last # None /\ last[1].trial_num >= GainTrialThreshold
         THEN ts.AG_MIN_VALUE
         ELSE ts.AG_INIT_VALUE

\* __init__ up to SessionPathCreator: the session's paths are known
Construct ==
    /\ FrameSPH
    /\ sphPc = "new"
    /\ \E f \in DataFiles :
          PREVIOUS_DATA_FILE' = [PREVIOUS_DATA_FILE EXCEPT ![session] = f]
    /\ sphPc' = "load"
    /\ UNCHANGED <<session, task_settings, LAST_TRIAL_DATA, REWARD_AMOUNT,
                   STIM_GAIN>>

\* self.LAST_TRIAL_DATA = self._load_last_trial()
LoadStep ==
    /\ FrameSPH
    /\ sphPc = "load"
    /\ LET r == LoadLastTrial(PREVIOUS_DATA_FILE[session]) IN
          IF r.outcome = "return"
            THEN /\ LAST_TRIAL_DATA' =
                        [LAST_TRIAL_DATA EXCEPT ![session] = r.value]
                 /\ sphPc' = "reward"
            ELSE /\ sphPc' = r.outcome
                 /\ UNCHANGED LAST_TRIAL_DATA
    /\ UNCHANGED <<session, task_settings, PREVIOUS_DATA_FILE, REWARD_AMOUNT,
                   STIM_GAIN>>

\* self.REWARD_AMOUNT = self._init_reward()
RewardStep ==
    /\ FrameSPH
    /\ sphPc = "reward"
    /\ REWARD_AMOUNT' = [REWARD_AMOUNT EXCEPT ![session] =
                            InitReward(task_settings, LAST_TRIAL_DATA[session])]
    /\ sphPc' = "gain"
    /\ UNCHANGED <<session, task_settings, PREVIOUS_DATA_FILE,
                   LAST_TRIAL_DATA, STIM_GAIN>>

\* self.STIM_GAIN = self._init_stim_gain()
GainStep ==
    /\ FrameSPH
    /\ sphPc = "gain"
    /\ STIM_GAIN' = [STIM_GAIN EXCEPT ![session] =
                        InitStimGain(task_settings, LAST_TRIAL_DATA[session])]
    /\ sphPc' = "done"
    /\ UNCHANGED <<session, task_settings, PREVIOUS_DATA_FILE,
                   LAST_TRIAL_DATA, REWARD_AMOUNT>>

\* a second session is initialised with the same task settings
SecondSession ==
    /\ FrameSPH
    /\ sphPc = "done" /\ session = 1
    /\ session' = 2
    /\ sphPc' = "new"
    /\ UNCHANGED <<task_settings, PREVIOUS_DATA_FILE, LAST_TRIAL_DATA,
                   REWARD_AMOUNT, STIM_GAIN>>

NoSettings ==
    [ADAPTIVE_REWARD |-> FALSE, REWARD_AMOUNT |-> 1, AR_INIT_VALUE |-> 5,
     CALIBRATION_VALUE |-> 7, ADAPTIVE_GAIN |-> FALSE, STIM_GAIN |-> 6,
     AG_INIT_VALUE |-> 8, AG_MIN_VALUE |-> 4]

SphStart ==
    /\ session = 1
    /\ PREVIOUS_DATA_FILE = [s \in Sessions |-> None]
    /\ LAST_TRIAL_DATA = [s \in Sessions |-> None]
    /\ REWARD_AMOUNT = [s \in Sessions |-> Rat(task_settings.REWARD_AMOUNT)]
    /\ STIM_GAIN = [s \in Sessions |-> task_settings.STIM_GAIN]

IdleSPH == sphPc = "idle" /\ task_settings = NoSettings /\ SphStart

InitSPH == sphPc = "new" /\ task_settings \in TaskSettings /\ SphStart

NextSPH ==
    \/ Construct
    \/ LoadStep
    \/ RewardStep
    \/ GainStep
    \/ SecondSession

\* ======================================================================
\* Code archival (iotasks.py save_task_code, save_video_code, zipdir,
\* zipit; session_params.py _save_task_code, zipdir, zipit)
\* ======================================================================
Variants == {"save_task_code", "save_video_code", "_save_task_code"}

\* Paths are sequences of names
SESSION_RAW_DATA_FOLDER == <<"session", "raw_behavior_data">>
SESSION_RAW_VIDEO_DATA_FOLDER == <<"session", "raw_video_data">>
PYBPOD_PROTOCOL == "task"

Folder(v) ==
    IF v = "save_video_code" THEN SESSION_RAW_VIDEO_DATA_FOLDER
    ELSE SESSION_RAW_DATA_FOLDER

ZipPath(v) ==
    Folder(v) \o << IF v = "save_task_code" THEN "_iblrig_taskCodeFiles.raw.zip"
                    ELSE IF v = "save_video_code"
                      THEN "_iblrig_videoCodeFiles.raw.zip"
                      ELSE "_iblrig_codeFiles.raw.zip" >>

\* os.path.join(a, name)
Join(a, name) == Append(a, name)

\* os.path.join(path, '..'), normalised
Parent(path) == SubSeq(path, 1, Len(path) - 1)

IsPrefix(a, b) == Len(a) <= Len(b) /\ \A i \in 1..Len(a) : a[i] = b[i]

\* os.path.relpath(p, start) for p below start
RelPath(p, start) == SubSeq(p, Len(start) + 1, Len(p))

\* A file k levels below directory d of folder
FileAt(folder, d, k) ==
    Join(Join(folder, d) \o [i \in 1..(k - 1) |-> "sub"], "code.py")

DirNames == {PYBPOD_PROTOCOL, "Gabor2D"}
RegularNames == {"_iblrig_taskData.raw.jsonable", "_iblrig_taskSettings.raw.json"}

\* os.listdir(folder)
ListDir(folder) ==
    {p[Len(p)] : p \in {q \in fsDirs \cup fsRegular : Parent(q) = folder}}

\* os.path.isdir(p)
IsDir(p) == p \in fsDirs

\* Variant of WalkFiles: only the files directly in path
WalkFilesTopOnly(path) == {f \in fsFiles : Parent(f) = path}

\* os.walk(path): every file in path or below it
WalkFiles(path) == {f \in fsFiles : IsPrefix(path, f) /\ Len(f) > Len(path)}

\* zipdir(path, ziph): the archive names written
ZipDir(path) == {RelPath(f, Parent(path)) : f \in WalkFiles(path)}

\* The orders in which os.listdir can return a set of names
Orders(S) ==
    {o \in [1..Cardinality(S) -> S] : \A i, j \in DOMAIN o : i # j => o[i] # o[j]}

\* The task code copied by shutil.copytree in _save_task_code
TaskCode(folder) == {FileAt(folder, PYBPOD_PROTOCOL, k) : k \in 1..MaxDepth}

\* _save_task_code only: shutil.copytree(src, dst), which needs dst absent
CopyTaskCode ==
    /\ FrameZip
    /\ zPc = "copy"
    /\ IF Join(Folder(variant), PYBPOD_PROTOCOL) \in fsDirs
         THEN /\ zPc' = "FileExistsError"
              /\ UNCHANGED <<fsDirs, fsFiles>>
         ELSE /\ fsDirs' = fsDirs \cup {Join(Folder(variant), PYBPOD_PROTOCOL)}
              /\ fsFiles' = fsFiles \cup TaskCode(Folder(variant))
              /\ zPc' = "list"
    /\ UNCHANGED <<variant, fsRegular, codeDirs, zipIdx, rmIdx, zipf, regular0,
                   removed>>

\* the list comprehension over os.listdir filtered by os.path.isdir
ListCodeDirs ==
    /\ FrameZip
    /\ zPc = "list"
    /\ \E o \in Orders({n \in ListDir(Folder(variant)) :
                           IsDir(Join(Folder(variant), n))}) :
          codeDirs' = [i \in DOMAIN o |-> Join(Folder(variant), o[i])]
    /\ zPc' = "zipit"
    /\ UNCHANGED <<variant, fsDirs, fsFiles, fsRegular, zipIdx, rmIdx, zipf,
                   regular0, removed>>

\* zipit: zipfile.ZipFile(zip_name, 'w', ...)
ZipOpen ==
    /\ FrameZip
    /\ zPc = "zipit"
    /\ zipf' = [path |-> ZipPath(variant), state |-> "open", entries |-> {}]
    /\ zipIdx' = 0
    /\ zPc' = "zipdir"
    /\ UNCHANGED <<variant, fsDirs, fsFiles, fsRegular, codeDirs, rmIdx,
                   regular0, removed>>

\* zipit: zipdir(dir, zipf) for the next dir of dir_list
ZipDirStep ==
    /\ FrameZip
    /\ zPc = "zipdir" /\ zipIdx < Len(codeDirs)
    /\ zipf' = [zipf EXCEPT !.entries = @ \cup ZipDir(codeDirs[zipIdx + 1])]
    /\ zipIdx' = zipIdx + 1
    /\ UNCHANGED <<variant, zPc, fsDirs, fsFiles, fsRegular, codeDirs, rmIdx,
                   regular0, removed>>

\* zipit: zipf.close()
ZipClose ==
    /\ FrameZip
    /\ zPc = "zipdir" /\ zipIdx = Len(codeDirs)
    /\ zipf' = [zipf EXCEPT !.state = "closed"]
    /\ rmIdx' = 0
    /\ zPc' = "rmtree"
    /\ UNCHANGED <<variant, fsDirs, fsFiles, fsRegular, codeDirs, zipIdx,
                   regular0, removed>>

\* [shutil.rmtree(x) for x in ...]: the next folder and all below it
RmTreeStep ==
    /\ FrameZip
    /\ zPc = "rmtree" /\ rmIdx < Len(codeDirs)
    /\ LET x == codeDirs[rmIdx + 1]
           gone == {f \in fsFiles : IsPrefix(x, f)}
       IN /\ fsDirs' = fsDirs \ {x}
          /\ fsFiles' = fsFiles \ gone
          /\ removed' = removed \cup gone
    /\ rmIdx' = rmIdx + 1
    /\ UNCHANGED <<variant, zPc, fsRegular, codeDirs, zipIdx, zipf, regular0>>

\* the function returns
SaveCodeReturns ==
    /\ FrameZip
    /\ zPc = "rmtree" /\ rmIdx = Len(codeDirs)
    /\ zPc' = "done"
    /\ UNCHANGED <<variant, fsDirs, fsFiles, fsRegular, codeDirs, zipIdx,
                   rmIdx, zipf, regular0, removed>>

NoZip == [path |-> <<>>, state |-> "absent", entries |-> {}]

IdleZip ==
    /\ variant = "none" /\ zPc = "idle" /\ fsDirs = {} /\ fsFiles = {}
    /\ fsRegular = {} /\ codeDirs = <<>> /\ zipIdx = 0 /\ rmIdx = 0
    /\ zipf = NoZip /\ regular0 = {} /\ removed = {}

\* A fresh session folder holding some code folders and data files
InitZip ==
    /\ variant \in Variants
    /\ zPc = (IF variant = "_save_task_code" THEN "copy" ELSE "list")
    /\ fsDirs \in SUBSET {Join(Folder(variant), d) : d \in DirNames}
    /\ fsFiles \in SUBSET {FileAt(Folder(variant), d, k) :
                              d \in DirNames, k \in 1..MaxDepth}
    /\ \A f \in fsFiles : \E d \in fsDirs : IsPrefix(d, f)
    /\ fsRegular \in SUBSET {Join(Folder(variant), n) : n \in RegularNames}
    /\ codeDirs = <<>> /\ zipIdx = 0 /\ rmIdx = 0
    /\ zipf = NoZip
    /\ regular0 = fsRegular
    /\ removed = {}

NextZip ==
    \/ CopyTaskCode
    \/ ListCodeDirs
    \/ ZipOpen
    \/ ZipDirStep
    \/ ZipClose
    \/ RmTreeStep
    \/ SaveCodeReturns

\* ======================================================================
\* Session settings (iotasks.py save_session_settings)
\* ======================================================================
\* A Python value: kind and payload.  JSON has numbers, strings and arrays;
\* json.dumps writes a tuple as an array and an object through reprJSON / str.
PyInt(n) == [kind |-> "int", v |-> <<n>>]
PyTuple(t) == [kind |-> "tuple", v |-> t]
PyList(t) == [kind |-> "list", v |-> t]
PyObject(t) == [kind |-> "object", v |-> t]

SessionObjects ==
    [NTRIALS : {PyInt(100), PyInt(300)},
     SUBJECT_WEIGHT : {PyInt(20), PyInt(25)},
     STIM_POSITIONS : {PyTuple(<<0, 35>>), PyList(<<0, 35>>)},
     SESSION_DATETIME : {PyObject(<<2019, 2, 5>>)}]

\* json.dumps(value, cls=ComplexEncoder): the JSON value written
DumpValue(x) ==
    IF x.kind = "tuple" THEN [json |-> "array", v |-> x.v]
    ELSE IF x.kind = "list" THEN [json |-> "array", v |-> x.v]
    ELSE IF x.kind = "object" THEN [json |-> "string", v |-> x.v]
    ELSE [json |-> "number", v |-> x.v]

\* json.dumps(sph, cls=ComplexEncoder, indent=1): one document, many lines
Dumps(obj) == [k \in DOMAIN obj |-> DumpValue(obj[k])]

\* json.loads of one JSON value
LoadValue(j) ==
    IF j.json = "array" THEN PyList(j.v)
    ELSE IF j.json = "string" THEN [kind |-> "str", v |-> j.v]
    ELSE PyInt(j.v[1])

\* json.loads(text) of one document
Loads(doc) == [k \in DOMAIN doc |-> LoadValue(doc[k])]

\* raw.load_settings(session_folder): json.load of the whole settings
\* file, which parses exactly one document; text after the first document
\* is an error ("Extra data"), an empty file too
LoadSettings(file) ==
    IF Len(file) = 1 THEN [outcome |-> "ok", value |-> <<Loads(file[1])>>]
    ELSE [outcome |-> "JSONDecodeError", value |-> <<>>]

\* the caller invokes save_session_settings(sph)
CallSave ==
    /\ FrameSet
    /\ setPc \in {"ready", "returned"} /\ saves < MaxSaves
    /\ saves' = saves + 1
    /\ setPc' = "dumps"
    /\ UNCHANGED <<sph, settingsFile, save_this, settings>>

\* between two calls the session object may be updated by the task
UpdateSession ==
    /\ FrameSet
    /\ setPc = "returned" /\ saves < MaxSaves
    /\ \E o \in SessionObjects : o # sph /\ sph' = o
    /\ UNCHANGED <<setPc, settingsFile, save_this, settings, saves>>

\* save_this = json.dumps(sph, cls=ComplexEncoder, indent=1)
SaveDumps ==
    /\ FrameSet
    /\ setPc = "dumps"
    /\ save_this' = <<Dumps(sph)>>
    /\ setPc' = "write"
    /\ UNCHANGED <<sph, settingsFile, settings, saves>>

\* with open(SETTINGS_FILE_PATH, 'a') as f: f.write(save_this); f.write('\n')
SaveAppend ==
    /\ FrameSet
    /\ setPc = "write"
    /\ settingsFile' = Append(settingsFile, save_this[1])
    /\ setPc' = "reload"
    /\ UNCHANGED <<sph, save_this, settings, saves>>

\* save_this = json.loads(save_this); settings = raw.load_settings(...)
SaveReload ==
    /\ FrameSet
    /\ setPc = "reload"
    /\ save_this' = <<Loads(save_this[1])>>
    /\ settings' = LoadSettings(settingsFile)
    /\ setPc' = IF LoadSettings(settingsFile).outcome = "ok"
                  THEN "assert" ELSE LoadSettings(settingsFile).outcome
    /\ UNCHANGED <<sph, settingsFile, saves>>

\* assert(save_this == settings)
SaveAssert ==
    /\ FrameSet
    /\ setPc = "assert"
    /\ setPc' = IF save_this = settings.value
                  THEN "returned" ELSE "AssertionError"
    /\ UNCHANGED <<sph, settingsFile, save_this, settings, saves>>

NoSession ==
    [NTRIALS |-> PyInt(100), SUBJECT_WEIGHT |-> PyInt(20), STIM_POSITIONS |-> PyTuple(<<0, 35>>),
     SESSION_DATETIME |-> PyObject(<<2019, 2, 5>>)]

SetLocals ==
    /\ settingsFile = <<>> /\ save_this = <<>>
    /\ settings = [outcome |-> "none", value |-> <<>>] /\ saves = 0

IdleSet == setPc = "idle" /\ sph = NoSession /\ SetLocals

\* a new session: the settings file does not exist yet
InitSet == setPc = "ready" /\ sph \in SessionObjects /\ SetLocals

NextSet ==
    \/ CallSave
    \/ UpdateSession
    \/ SaveDumps
    \/ SaveAppend
    \/ SaveReload
    \/ SaveAssert

\* ======================================================================
\* update.py
\* ======================================================================
\* Strings that are searched with "in" are sequences of chunks of characters
Contains(x, sub) ==
    \E i \in 1..(Len(x) - Len(sub) + 1) : SubSeq(x, i, i + Len(sub) - 1) = sub

\* git ls-remote --tags origin / --heads origin
RemoteVersions == {"6.0.0", "6.1.0"}
RemoteBranches == {"master", "develop"}

help_args == {"-h", "--help", "?"}
commands == {"tasks", "update"}

\* git ls-tree -r --name-only origin/<branch>, in the order git lists them
F_readme == <<"README.md">>
F_tasks_json == <<"pybpod_projects/IBL/", "tasks", ".json">>
F_basic == <<"pybpod_projects/IBL/", "tasks", "/", "basic", "/task.py">>
F_basic_v2 == <<"pybpod_projects/IBL/", "tasks", "/", "basic", "_v2", "/task.py">>
F_habituation ==
    <<"pybpod_projects/IBL/", "tasks", "/", "habituation", "/task.py">>

LsTree(branch) ==
    IF branch = "master" THEN <<F_readme, F_tasks_json, F_basic, F_basic_v2>>
    ELSE <<F_readme, F_tasks_json, F_basic, F_basic_v2, F_habituation>>

TaskNames == {<<"basic">>, <<"basic", "_v2">>, <<"habituation">>}

\* the command lines update.py is started with
CommandLines ==
    {<<>>}
    \cup {<<a>> : a \in {"-h", "6.1.0", "5.0.0", "tasks", "update", "reinstall"}}
    \cup {<<a, b>> : a \in {"tasks", "update", "reinstall"},
                     b \in {"master", "develop", "nobranch"}}

\* [x for x in s if keep(x)] for the two filters of get_tasks
RECURSIVE FilterContains(_, _)
FilterContains(seq, sub) ==
    IF seq = <<>> THEN <<>>
    ELSE (IF Contains(Head(seq), sub) THEN <<Head(seq)>> ELSE <<>>)
         \o FilterContains(Tail(seq), sub)

\* found_files: for lt in local_tasks: extend with the remote task files
\* whose path contains lt
RECURSIVE FoundFiles(_, _)
FoundFiles(lts, remote_task_files) ==
    IF lts = <<>> THEN <<>>
    ELSE FilterContains(remote_task_files, Head(lts))
         \o FoundFiles(Tail(lts), remote_task_files)

\* missing_files: set(remote_task_files) - set(found_files), without
\* tasks.json
MissingFiles(lts, remote_task_files) ==
    {x \in Range(remote_task_files) \ Range(FoundFiles(lts, remote_task_files)) :
        ~Contains(x, <<"tasks", ".json">>)}

\* list(set(...)) filtered: the members of S, here in listing order
RECURSIVE KeepIn(_, _)
KeepIn(seq, S) ==
    IF seq = <<>> THEN <<>>
    ELSE (IF Head(seq) \in S THEN <<Head(seq)>> ELSE <<>>) \o KeepIn(Tail(seq), S)

\* get_tasks(branch, only_missing)
GetTasks(branch, lts, only_missing) ==
    LET remote_task_files == FilterContains(LsTree(branch), <<"tasks">>) IN
    IF only_missing
      THEN KeepIn(LsTree(branch), MissingFiles(lts, remote_task_files))
      ELSE FoundFiles(lts, remote_task_files)

\* Variant of InfoPlan: the local configuration is backed up first
InfoPlanWithBackup ==
    <<"update_remotes", "backup_pybpod_projects", "get_current_version",
      "get_versions", "report">>

\* info()
InfoPlan ==
    <<"update_remotes", "get_current_version", "get_versions", "report">>

\* __main__, elif sys.argv[1] in versions
VersionPlan ==
    <<"backup_pybpod_projects", "checkout_version", "get_tasks",
      "checkout_missing_task_files", "pop_stash">>

\* __main__, the tasks branches
TasksPlan == <<"get_tasks", "checkout_missing_task_files">>

\* Variant of Plan: with two arguments the branch is not looked up among the
\* remote branches before the command runs
PlanBranchUnchecked(a) ==
    IF Len(a) = 0 THEN InfoPlan
    ELSE IF Len(a) = 1 THEN
        <<"get_versions">> \o
        (IF a[1] \in help_args THEN <<"print_doc">>
         ELSE IF a[1] \in RemoteVersions THEN VersionPlan
         ELSE IF a[1] = "tasks" THEN TasksPlan
         ELSE IF a[1] = "update" THEN <<"checkout_single_file">>
         ELSE IF a[1] = "reinstall" THEN <<"install">>
         ELSE <<"ValueError">>)
    ELSE
        <<"get_branches">> \o
        (IF a[1] \notin commands THEN <<"ValueError">>
         ELSE IF a[1] = "tasks" THEN TasksPlan
         ELSE <<"checkout_single_file">>)

\* __main__: the calls made for a command line, in order
Plan(a) ==
    IF Len(a) = 0 THEN InfoPlan
    ELSE IF Len(a) = 1 THEN
        <<"get_versions">> \o
        (IF a[1] \in help_args THEN <<"print_doc">>
         ELSE IF a[1] \in RemoteVersions THEN VersionPlan
         ELSE IF a[1] = "tasks" THEN TasksPlan
         ELSE IF a[1] = "update" THEN <<"checkout_single_file">>
         ELSE IF a[1] = "reinstall" THEN <<"install">>
         ELSE <<"ValueError">>)
    ELSE
        <<"get_branches">> \o
        (IF a[1] \notin commands THEN <<"ValueError">>
         ELSE IF a[2] \notin RemoteBranches THEN <<"ValueError">>
         ELSE IF a[1] = "tasks" THEN TasksPlan
         ELSE <<"checkout_single_file">>)

\* the branch argument passed by __main__
Branch(a) == IF Len(a) = 2 THEN a[2] ELSE "master"

At(call) ==
    /\ uStatus = "running"
    /\ uPc \in 1..Len(Plan(argv)) /\ Plan(argv)[uPc] = call

Raise(exception) == uStatus' = exception /\ uPc' = uPc

Ran(op) ==
    /\ ops' = Append(ops, op)
    /\ uPc' = uPc + 1
    /\ uStatus' = uStatus

\* get_versions / get_branches / get_current_version: read-only queries
Query ==
    /\ FrameUpd
    /\ \E c \in {"get_versions", "get_branches", "get_current_version"} :
          At(c) /\ Ran(c)
    /\ UNCHANGED <<argv, repo, repo0, local_tasks, tag, task_files>>

\* print(__doc__)
PrintDoc ==
    /\ FrameUpd
    /\ At("print_doc") /\ Ran("print_doc")
    /\ UNCHANGED <<argv, repo, repo0, local_tasks, tag, task_files>>

\* update_remotes: git remote update
UpdateRemotes ==
    /\ FrameUpd
    /\ At("update_remotes") /\ Ran("git remote update")
    /\ repo' = [repo EXCEPT !.fetched = TRUE]
    /\ UNCHANGED <<argv, repo0, local_tasks, tag, task_files>>

\* info(), from "if not ver": only prints; idx is None for a tag that is
\* not a remote version, and idx + 1 then raises TypeError
Report ==
    /\ FrameUpd
    /\ At("report")
    /\ ops' = Append(ops, "print")
    /\ IF tag # "" /\ tag \notin RemoteVersions
         THEN Raise("TypeError")
         ELSE uPc' = uPc + 1 /\ uStatus' = uStatus
    /\ UNCHANGED <<argv, repo, repo0, local_tasks, tag, task_files>>

\* backup_pybpod_projects: copytree to ~/pybpod_projects.bk, or to
\* ~/pybpod_projects.bk0 when that exists; copytree needs dst absent
BackupPybpodProjects ==
    /\ FrameUpd
    /\ At("backup_pybpod_projects")
    /\ LET dst == IF "pybpod_projects.bk" \in repo.home
                    THEN "pybpod_projects.bk0" ELSE "pybpod_projects.bk"
       IN IF dst \in repo.home
            THEN /\ Raise("FileExistsError")
                 /\ UNCHANGED <<repo, ops>>
            ELSE /\ repo' = [repo EXCEPT !.home = @ \cup {dst}]
                 /\ Ran("backup")
    /\ UNCHANGED <<argv, repo0, local_tasks, tag, task_files>>

\* checkout_version(ver): git stash; git checkout tags/ver; submodule_update
CheckoutVersion ==
    /\ FrameUpd
    /\ At("checkout_version")
    /\ repo' = [repo EXCEPT
                   !.stash = IF repo.dirty THEN @ + 1 ELSE @,
                   !.dirty = FALSE,
                   !.head = argv[1],
                   !.submodules = argv[1]]
    /\ ops' = ops \o <<"git stash", "git checkout tag", "git submodule update">>
    /\ uPc' = uPc + 1
    /\ uStatus' = uStatus
    /\ UNCHANGED <<argv, repo0, local_tasks, tag, task_files>>

\* task_files = get_tasks(branch=..., only_missing=False): git fetch,
\* git ls-tree; local_tasks is listed in the order glob returns it
GetTasksStep ==
    /\ FrameUpd
    /\ At("get_tasks") /\ Ran("git fetch")
    /\ repo' = [repo EXCEPT !.fetched = TRUE]
    /\ \E lts \in Orders(local_tasks) :
          task_files' = GetTasks(Branch(argv), lts, FALSE)
    /\ UNCHANGED <<argv, repo0, local_tasks, tag>>

\* checkout_missing_task_files(task_files, branch): git checkout
\* origin/<branch> -- file, for every file of the list
CheckoutMissingTaskFiles ==
    /\ FrameUpd
    /\ At("checkout_missing_task_files") /\ Ran("git checkout files")
    /\ repo' = [repo EXCEPT !.files = @ \cup Range(task_files)]
    /\ UNCHANGED <<argv, repo0, local_tasks, tag, task_files>>

\* checkout_single_file(file='update.py', branch=...)
CheckoutSingleFile ==
    /\ FrameUpd
    /\ At("checkout_single_file") /\ Ran("git checkout files")
    /\ repo' = [repo EXCEPT !.files = @ \cup {<<"update.py">>}]
    /\ UNCHANGED <<argv, repo0, local_tasks, tag, task_files>>

\* pop_stash: git stash pop
PopStash ==
    /\ FrameUpd
    /\ At("pop_stash") /\ Ran("git stash pop")
    /\ repo' = IF repo.stash > 0
                 THEN [repo EXCEPT !.stash = @ - 1, !.dirty = TRUE]
                 ELSE repo
    /\ UNCHANGED <<argv, repo0, local_tasks, tag, task_files>>

\* subprocess.call(['python', 'install.py'])
Reinstall ==
    /\ FrameUpd
    /\ At("install") /\ Ran("python install.py")
    /\ repo' = [repo EXCEPT !.installed = TRUE]
    /\ UNCHANGED <<argv, repo0, local_tasks, tag, task_files>>

\* raise ValueError
RaiseValueError ==
    /\ FrameUpd
    /\ At("ValueError")
    /\ Raise("ValueError")
    /\ UNCHANGED <<argv, repo, repo0, ops, local_tasks, tag, task_files>>

\* print("\n"): the command finishes
Finish ==
    /\ FrameUpd
    /\ uStatus = "running" /\ uPc = Len(Plan(argv)) + 1
    /\ uStatus' = "done"
    /\ UNCHANGED <<argv, uPc, repo, repo0, ops, local_tasks, tag, task_files>>

NoRepo ==
    [head |-> "6.0.0", submodules |-> "6.0.0", dirty |-> FALSE, stash |-> 0,
     files |-> {}, projects |-> "local configuration", home |-> {},
     fetched |-> FALSE, installed |-> FALSE]

IdleUpd ==
    /\ argv = <<>> /\ uPc = 0 /\ uStatus = "idle" /\ repo = NoRepo /\ repo0 = NoRepo
    /\ ops = <<>> /\ local_tasks = {} /\ tag = "" /\ task_files = <<>>

InitUpd ==
    /\ argv \in CommandLines
    /\ uPc = 1 /\ uStatus = "running"
    /\ tag \in {"", "6.0.0", "6.1.0", "4.9.9"}
    /\ repo \in [head : {IF tag = "" THEN "untagged" ELSE tag},
                  submodules : {IF tag = "" THEN "untagged" ELSE tag},
                  dirty : BOOLEAN, stash : 0..MaxStash, files : {{}},
                  projects : {"local configuration"},
                  home : {{}, {"pybpod_projects.bk"},
                          {"pybpod_projects.bk", "pybpod_projects.bk0"}},
                  fetched : {FALSE}, installed : {FALSE}]
    /\ repo0 = repo
    /\ ops = <<>>
    /\ local_tasks \in SUBSET TaskNames
    /\ task_files = <<>>

NextUpd ==
    \/ Query
    \/ PrintDoc
    \/ UpdateRemotes
    \/ Report
    \/ BackupPybpodProjects
    \/ CheckoutVersion
    \/ GetTasksStep
    \/ CheckoutMissingTaskFiles
    \/ CheckoutSingleFile
    \/ PopStash
    \/ Reinstall
    \/ RaiseValueError
    \/ Finish

\* ======================================================================
\* Pybpod user settings (iotasks.py deserialize_pybpod_user_settings,
\* session_params.py deserialize_session_user_settings)
\* ======================================================================
\* A Python string is the sequence of its pieces: brackets, braces, quotes,
\* commas, colons and spaces are pieces of their own, a word is one piece.
DQ == "\""
SQ == "'"
Structural == {"[", "]", "{", "}", ",", ":", " ", DQ, SQ}

PyStr(w) == [kind |-> "str", v |-> w]
PyDict(items) == [kind |-> "dict", v |-> items]

\* x.replace(old, new) for one-character old and new
Replace(x, old, new) == [i \in DOMAIN x |-> IF x[i] = old THEN new ELSE x[i]]

\* x.split(sep)
RECURSIVE Split(_, _)
Split(x, sep) ==
    LET hits == {i \in 1..(Len(x) - Len(sep) + 1) :
                    SubSeq(x, i, i + Len(sep) - 1) = sep}
    IN  IF hits = {} THEN <<x>>
        ELSE LET i == CHOOSE h \in hits : \A k \in hits : h <= k
             IN  <<SubSeq(x, 1, i - 1)>>
                 \o Split(SubSeq(x, i + Len(sep), Len(x)), sep)

\* a JSON string: a word between double quotes
IsJsonString(t) ==
    Len(t) = 3 /\ t[1] = DQ /\ t[3] = DQ /\ t[2] \notin Structural

\* json.loads(text): whitespace between the pieces is skipped; a string, an
\* array of strings and an object of strings are decoded, any other text
\* is a JSONDecodeError
JsonLoads(text) ==
    LET t == SelectSeq(text, LAMBDA c : c # " ")
        inner == SubSeq(t, 2, Len(t) - 1)
        items == IF Len(inner) = 0 THEN <<>> ELSE Split(inner, <<",">>)
        pairs == [i \in DOMAIN items |-> Split(items[i], <<":">>)]
    IN  IF IsJsonString(t)
        THEN [ok |-> TRUE, value |-> PyStr(t[2])]
        ELSE IF /\ Len(t) >= 2 /\ t[1] = "[" /\ t[Len(t)] = "]"
                /\ \A i \in DOMAIN items : IsJsonString(items[i])
        THEN [ok |-> TRUE,
              value |-> PyList([i \in DOMAIN items |-> items[i][2]])]
        ELSE IF /\ Len(t) >= 2 /\ t[1] = "{" /\ t[Len(t)] = "}"
                /\ \A i \in DOMAIN pairs :
                      /\ Len(pairs[i]) = 2
                      /\ IsJsonString(pairs[i][1])
                      /\ IsJsonString(pairs[i][2])
        THEN [ok |-> TRUE,
              value |-> PyDict([i \in DOMAIN pairs |->
                                  <<pairs[i][1][2], pairs[i][2][2]>>])]
        ELSE [ok |-> FALSE, value |-> PyStr("JSONDecodeError")]

\* the settings as user_settings.py carries them -------------------------
\* json text of a list of strings, e.g. ["a", "b"]
JsonArray(words) ==
    <<"[">> \o
    (IF Len(words) = 0 THEN <<>>
     ELSE <<DQ, words[1], DQ>> \o
          (IF Len(words) = 1 THEN <<>>
           ELSE <<",", " ", DQ, words[2], DQ>>))
    \o <<"]">>

\* str() of a list of two strings, e.g. ['a', 'b']
PyRepr(words) == Replace(JsonArray(words), DQ, SQ)

\* json text of an object of strings, e.g. {"k": "v"}
JsonObject(k, v) == <<"{", DQ, k, DQ, ":", " ", DQ, v, DQ, "}">>

Creators == {<<"_iblrig_test_user", "local">>, <<"lab_member", "alyx">>}
Subjects == {<<"mouse_a", "uuid_a">>, <<"mouse_b", "uuid_b">>}

\* PYBPOD_SUBJECTS: a list of str([name, uuid]), of any length up to the bound
SubjectLists ==
    UNION {[1..n -> {PyRepr(x) : x \in Subjects}] : n \in 0..MaxSubjects}

\* PYBPOD_SUBJECT_EXTRA: the subjects' json objects joined by "," in brackets
SubjectExtras ==
    {<<"[">> \o JsonObject("nickname", x[1]) \o <<"]">> : x \in Subjects}
    \cup {<<"[">> \o JsonObject("nickname", "mouse_a") \o <<DQ, ",", DQ>>
                  \o JsonObject("nickname", "mouse_b") \o <<"]">>}

\* the message of the else branch goes to the log or to the console
ErrorMessage(c) ==
    [to |-> IF c = "iotasks" THEN "log.error" ELSE "print",
     msg |-> "Multiple subjects found in PYBPOD_SUBJECTS"]

\* a json.loads that fails ends the call
JsonDecodeError ==
    /\ dExc' = "JSONDecodeError" /\ dPc' = "raised"
    /\ UNCHANGED <<PYBPOD_CREATOR, PYBPOD_USER_EXTRA, PYBPOD_SUBJECTS,
                   PYBPOD_SUBJECT_EXTRA>>

\* sph.PYBPOD_CREATOR = json.loads(sph.PYBPOD_CREATOR)
DecodeCreator ==
    /\ FrameDes
    /\ dPc = "creator"
    /\ LET d == JsonLoads(PYBPOD_CREATOR)
       IN  IF d.ok
           THEN /\ PYBPOD_CREATOR' = d.value
                /\ dPc' = "user_extra"
                /\ UNCHANGED <<dExc, PYBPOD_USER_EXTRA, PYBPOD_SUBJECTS,
                               PYBPOD_SUBJECT_EXTRA>>
           ELSE JsonDecodeError
    /\ UNCHANGED <<caller, subjects0, subject_extra0, errors, spc_subject>>

\* sph.PYBPOD_USER_EXTRA = json.loads(sph.PYBPOD_USER_EXTRA)
DecodeUserExtra ==
    /\ FrameDes
    /\ dPc = "user_extra"
    /\ LET d == JsonLoads(PYBPOD_USER_EXTRA)
       IN  IF d.ok
           THEN /\ PYBPOD_USER_EXTRA' = d.value
                /\ dPc' = "subjects"
                /\ UNCHANGED <<dExc, PYBPOD_CREATOR, PYBPOD_SUBJECTS,
                               PYBPOD_SUBJECT_EXTRA>>
           ELSE JsonDecodeError
    /\ UNCHANGED <<caller, subjects0, subject_extra0, errors, spc_subject>>

\* sph.PYBPOD_SUBJECTS = [json.loads(x.replace("'", '"')) for x in ...]
DecodeSubjects ==
    /\ FrameDes
    /\ dPc = "subjects"
    /\ LET d == [i \in DOMAIN PYBPOD_SUBJECTS |->
                    JsonLoads(Replace(PYBPOD_SUBJECTS[i], SQ, DQ))]
       IN  IF \A i \in DOMAIN d : d[i].ok
           THEN /\ PYBPOD_SUBJECTS' = [i \in DOMAIN d |-> d[i].value]
                /\ dPc' = "len"
                /\ UNCHANGED <<dExc, PYBPOD_CREATOR, PYBPOD_USER_EXTRA,
                               PYBPOD_SUBJECT_EXTRA>>
           ELSE JsonDecodeError
    /\ UNCHANGED <<caller, subjects0, subject_extra0, errors, spc_subject>>

\* Variant of OneSubject: the first subject is taken when there are several
OneSubjectFirstOfMany ==
    /\ FrameDes
    /\ dPc = "len" /\ Len(PYBPOD_SUBJECTS) >= 1
    /\ PYBPOD_SUBJECTS' = PYBPOD_SUBJECTS[1]
    /\ dPc' = "subject_extra"
    /\ UNCHANGED <<caller, dExc, PYBPOD_CREATOR, PYBPOD_USER_EXTRA,
                   PYBPOD_SUBJECT_EXTRA, subjects0, subject_extra0, errors,
                   spc_subject>>

\* if len(sph.PYBPOD_SUBJECTS) == 1: sph.PYBPOD_SUBJECTS = sph.PYBPOD_SUBJECTS[0]
OneSubject ==
    /\ FrameDes
    /\ dPc = "len" /\ Len(PYBPOD_SUBJECTS) = 1
    /\ PYBPOD_SUBJECTS' = PYBPOD_SUBJECTS[1]
    /\ dPc' = "subject_extra"
    /\ UNCHANGED <<caller, dExc, PYBPOD_CREATOR, PYBPOD_USER_EXTRA,
                   PYBPOD_SUBJECT_EXTRA, subjects0, subject_extra0, errors,
                   spc_subject>>

\* else: log.error(...) / print(...); raise IOError
RaiseIOError ==
    /\ FrameDes
    /\ dPc = "len" /\ Len(PYBPOD_SUBJECTS) # 1
    /\ errors' = Append(errors, ErrorMessage(caller))
    /\ dExc' = "IOError" /\ dPc' = "raised"
    /\ UNCHANGED <<caller, PYBPOD_CREATOR, PYBPOD_USER_EXTRA, PYBPOD_SUBJECTS,
                   PYBPOD_SUBJECT_EXTRA, subjects0, subject_extra0,
                   spc_subject>>

\* sph.PYBPOD_SUBJECT_EXTRA = [json.loads(x) for x in
\*                             sph.PYBPOD_SUBJECT_EXTRA[1:-1].split('","')]
\* if len(sph.PYBPOD_SUBJECT_EXTRA) == 1: ... = sph.PYBPOD_SUBJECT_EXTRA[0]
DecodeSubjectExtra ==
    /\ FrameDes
    /\ dPc = "subject_extra"
    /\ LET x == Split(SubSeq(PYBPOD_SUBJECT_EXTRA, 2,
                             Len(PYBPOD_SUBJECT_EXTRA) - 1), <<DQ, ",", DQ>>)
           d == [i \in DOMAIN x |-> JsonLoads(x[i])]
       IN  IF \A i \in DOMAIN d : d[i].ok
           THEN /\ PYBPOD_SUBJECT_EXTRA' =
                      IF Len(d) = 1 THEN d[1].value
                      ELSE [i \in DOMAIN d |-> d[i].value]
                /\ dPc' = "return"
                /\ UNCHANGED <<dExc, PYBPOD_CREATOR, PYBPOD_USER_EXTRA,
                               PYBPOD_SUBJECTS>>
           ELSE JsonDecodeError
    /\ UNCHANGED <<caller, subjects0, subject_extra0, errors, spc_subject>>

\* iotasks: return sph
ReturnSph ==
    /\ FrameDes
    /\ dPc = "return" /\ caller = "iotasks"
    /\ dPc' = "returned"
    /\ UNCHANGED <<caller, dExc, PYBPOD_CREATOR, PYBPOD_USER_EXTRA,
                   PYBPOD_SUBJECTS, PYBPOD_SUBJECT_EXTRA, subjects0,
                   subject_extra0, errors, spc_subject>>

\* session_params: back in __init__,
\* SessionPathCreator(..., self.PYBPOD_SUBJECTS[0], self.PYBPOD_PROTOCOL)
CreateSessionPaths ==
    /\ FrameDes
    /\ dPc = "return" /\ caller = "session_params"
    /\ spc_subject' = PYBPOD_SUBJECTS.v[1]
    /\ dPc' = "returned"
    /\ UNCHANGED <<caller, dExc, PYBPOD_CREATOR, PYBPOD_USER_EXTRA,
                   PYBPOD_SUBJECTS, PYBPOD_SUBJECT_EXTRA, subjects0,
                   subject_extra0, errors>>

IdleDes ==
    /\ caller = "none" /\ dPc = "idle" /\ dExc = ""
    /\ PYBPOD_CREATOR = <<>> /\ PYBPOD_USER_EXTRA = <<>>
    /\ PYBPOD_SUBJECTS = <<>> /\ PYBPOD_SUBJECT_EXTRA = <<>>
    /\ subjects0 = <<>> /\ subject_extra0 = <<>>
    /\ errors = <<>> /\ spc_subject = ""

InitDes ==
    /\ caller \in {"iotasks", "session_params"}
    /\ dPc = "creator" /\ dExc = ""
    /\ PYBPOD_CREATOR \in {JsonArray(x) : x \in Creators}
    /\ PYBPOD_USER_EXTRA \in {<<"{", "}">>, JsonObject("lab", "mainenlab")}
    /\ PYBPOD_SUBJECTS \in SubjectLists
    /\ PYBPOD_SUBJECT_EXTRA \in SubjectExtras
    /\ subjects0 = PYBPOD_SUBJECTS
    /\ subject_extra0 = PYBPOD_SUBJECT_EXTRA
    /\ errors = <<>> /\ spc_subject = ""

NextDes ==
    \/ DecodeCreator
    \/ DecodeUserExtra
    \/ DecodeSubjects
    \/ OneSubject
    \/ RaiseIOError
    \/ DecodeSubjectExtra
    \/ ReturnSph
    \/ CreateSessionPaths

\* ======================================================================
\* Session order (iotasks.py load_session_order_idx)
\* ======================================================================
\* misc.draw_session_order(): some order of the pregenerated sessions
SessionOrders ==
    {o \in [1..MaxOrderLen -> 0..(MaxOrderLen - 1)] :
        \A i, j \in 1..MaxOrderLen : o[i] = o[j] => i = j}

\* The settings a session leaves behind, as a dict.  A session that uses the
\* session order saves SESSION_ORDER and SESSION_IDX; a mock session saves
\* them as None; other protocols have neither key.
OrderedSettings(order, idx) ==
    [PYBPOD_PROTOCOL |-> "_iblrig_tasks_ephysChoiceWorld",
     SESSION_ORDER |-> order, SESSION_IDX |-> idx]

MockSettings == OrderedSettings(None, None)

OtherSettings == [PYBPOD_PROTOCOL |-> "_iblrig_tasks_trainingChoiceWorld"]

\* no previous settings: None or {}
NoSettingsData == <<>>

\* (not last_settings_data) or ('SESSION_ORDER' not in last_settings_data.keys())
\* or (last_settings_data['SESSION_ORDER'] is None)
NoSessionOrder(d) ==
    IF DOMAIN d = {} THEN TRUE
    ELSE IF "SESSION_ORDER" \notin DOMAIN d THEN TRUE
    ELSE d.SESSION_ORDER = None

\* return session_order, session_idx
ReturnOrderIdx ==
    /\ oPc' = "returned"
    /\ calls' = Append(calls, [session_order |-> session_order'[1],
                               session_idx |-> session_idx'[1],
                               carried |-> carried])
    /\ UNCHANGED <<last_settings_data, carried>>

\* if ...: session_order = misc.draw_session_order(); session_idx = 0
DrawSessionOrder ==
    /\ FrameOrd
    /\ oPc = "call" /\ NoSessionOrder(last_settings_data)
    /\ \E o \in SessionOrders : session_order' = Some(o)
    /\ session_idx' = Some(0)
    /\ ReturnOrderIdx

\* Variant of ContinueSessionOrder: the index is carried over as it is
ContinueSessionOrderSameIdx ==
    /\ FrameOrd
    /\ oPc = "call" /\ ~NoSessionOrder(last_settings_data)
    /\ "SESSION_ORDER" \in DOMAIN last_settings_data
    /\ session_order' = last_settings_data.SESSION_ORDER
    /\ session_idx' = Some(last_settings_data.SESSION_IDX[1])
    /\ ReturnOrderIdx

\* elif 'SESSION_ORDER' in last_settings_data.keys():
\*     session_order = last_settings_data['SESSION_ORDER']
\*     session_idx = last_settings_data['SESSION_IDX'] + 1
ContinueSessionOrder ==
    /\ FrameOrd
    /\ oPc = "call" /\ ~NoSessionOrder(last_settings_data)
    /\ "SESSION_ORDER" \in DOMAIN last_settings_data
    /\ session_order' = last_settings_data.SESSION_ORDER
    /\ session_idx' = Some(last_settings_data.SESSION_IDX[1] + 1)
    /\ ReturnOrderIdx

\* the session ends having saved the pair in its settings, and the next
\* session calls the function on these settings
NextSessionCarries ==
    /\ FrameOrd
    /\ oPc = "returned" /\ Len(calls) < MaxSessions
    /\ last_settings_data' = OrderedSettings(session_order, session_idx)
    /\ carried' = TRUE
    /\ session_order' = None /\ session_idx' = None
    /\ oPc' = "call"
    /\ UNCHANGED calls

\* a mock session or a session of another protocol is run in between, or
\* no previous session is found: the next call gets its settings
NextSessionBreaks ==
    /\ FrameOrd
    /\ oPc = "returned" /\ Len(calls) < MaxSessions
    /\ last_settings_data' \in {NoSettingsData, OtherSettings, MockSettings}
    /\ carried' = FALSE
    /\ session_order' = None /\ session_idx' = None
    /\ oPc' = "call"
    /\ UNCHANGED calls

IdleOrd ==
    /\ oPc = "idle" /\ last_settings_data = NoSettingsData
    /\ session_order = None /\ session_idx = None
    /\ carried = FALSE /\ calls = <<>>

InitOrd ==
    /\ oPc = "call"
    /\ last_settings_data \in
          {NoSettingsData, OtherSettings, MockSettings}
          \cup {OrderedSettings(Some(o), Some(i)) :
                    o \in SessionOrders, i \in 0..1}
    /\ session_order = None /\ session_idx = None
    /\ carried = FALSE /\ calls = <<>>

NextOrd ==
    \/ DrawSessionOrder
    \/ ContinueSessionOrder
    \/ NextSessionCarries
    \/ NextSessionBreaks

\* ======================================================================
\* Specifications
\* ======================================================================
StartSM == InitSM /\ IdleSPH /\ IdleZip /\ IdleSet /\ IdleUpd /\ IdleDes /\ IdleOrd

SpecSM == StartSM /\ [][NextSM]_vars

StartSPH == InitSPH /\ IdleSM /\ IdleZip /\ IdleSet /\ IdleUpd /\ IdleDes /\ IdleOrd

SpecSPH == StartSPH /\ [][NextSPH]_vars

StartZip == InitZip /\ IdleSM /\ IdleSPH /\ IdleSet /\ IdleUpd /\ IdleDes /\ IdleOrd

SpecZip == StartZip /\ [][NextZip]_vars

StartSet == InitSet /\ IdleSM /\ IdleSPH /\ IdleZip /\ IdleUpd /\ IdleDes /\ IdleOrd

SpecSet == StartSet /\ [][NextSet]_vars

StartUpd == InitUpd /\ IdleSM /\ IdleSPH /\ IdleZip /\ IdleSet /\ IdleDes /\ IdleOrd

SpecUpd == StartUpd /\ [][NextUpd]_vars

StartDes == InitDes /\ IdleSM /\ IdleSPH /\ IdleZip /\ IdleSet /\ IdleUpd /\ IdleOrd

SpecDes == StartDes /\ [][NextDes]_vars

StartOrd ==
    InitOrd /\ IdleSM /\ IdleSPH /\ IdleZip /\ IdleSet /\ IdleUpd /\ IdleDes

SpecOrd == StartOrd /\ [][NextOrd]_vars

\* ======================================================================
\* Claims
\* ======================================================================
HabituationChain ==
    <<"trial_start", "stim_on", "stim_center", "reward", "iti", "exit">>

\* C1: in a habituation trial the device walks the chain trial_start ->
\* stim_on -> stim_center -> reward -> iti -> exit, each state once and in
\* that order, every state is left on Tup only, the run ends in exit, and
\* Valve1 is opened exactly once, on entering reward, after stim_on and
\* stim_center were entered.
C1_HabituationChain ==
    protocol = "habituation" =>
        /\ IsPrefix(entered, HabituationChain)
        /\ Len(leftOn) = (IF entered = <<>> THEN 0 ELSE Len(entered) - 1)
        /\ \A i \in 1..Len(leftOn) : leftOn[i] = "Tup"
        /\ (smPc = "ran" => entered = HabituationChain)
        /\ valveLog = (IF Len(entered) >= 4 THEN <<"reward">> ELSE <<>>)
        /\ (valveLog # <<>> =>
               /\ cur \in {"reward", "iti", "exit"}
               /\ entered[2] = "stim_on" /\ entered[3] = "stim_center")

\* C1 witness: a habituation run with a non-zero valve time has walked the
\* whole chain to exit and opened the valve once
C1_Witness ==
    /\ protocol = "habituation" /\ smPc = "ran" /\ cur = "exit"
    /\ valveLog = <<"reward">> /\ entered = HabituationChain
    /\ tph.reward_valve_time > 0

\* C2 as claimed: every machine sent has 2 to 5 states and every state
\* changes on Tup only.
C2_TwoToFiveStatesTupOnly ==
    sent # <<>> =>
        /\ Len(sent) \in 2..5
        /\ \A i \in 1..Len(sent) : Events(sent[i]) = {"Tup"}

\* C2 amended: every machine sent has 1 to 5 declared states (5 for
\* habituation, 1 for valve_open and play_tone), every state has exactly one
\* change condition, which is Tup except for play_tone, which leaves on the
\* input event BNC2Low.
C2_OneToFiveStatesSingleCondition ==
    sent # <<>> =>
        /\ Len(sent) = (IF protocol = "habituation" THEN 5 ELSE 1)
        /\ \A i \in 1..Len(sent) :
              /\ Cardinality(sent[i].state_change_conditions) = 1
              /\ Events(sent[i]) =
                    (IF sent[i].state_name = "play_tone"
                       THEN {"BNC2Low"} ELSE {"Tup"})

\* C2 witness: a play_tone machine ran to exit, left on BNC2Low after its
\* Tup had no effect
C2_Witness ==
    /\ protocol = "passive" /\ smPc = "ran"
    /\ Len(sent) = 1 /\ sent[1].state_name = "play_tone"
    /\ entered = <<"play_tone", "exit">> /\ leftOn = <<"BNC2Low">>

\* The sessions whose reward / gain has been derived
RewardDerived(s) == s < session \/ (s = session /\ sphPc \in {"gain", "done"})
GainDerived(s) == s < session \/ (s = session /\ sphPc = "done")

LastLine(s) == LET f == PREVIOUS_DATA_FILE[s][1] IN f[Len(f)]

\* C3: _init_reward returns REWARD_AMOUNT when ADAPTIVE_REWARD is off,
\* AR_INIT_VALUE when it is on and there is no previous record, and
\* otherwise the last record's reward_valve_time over its reward_calibration.
C3_InitReward ==
    \A s \in Sessions : RewardDerived(s) =>
        LET r == REWARD_AMOUNT[s] IN
        /\ ~task_settings.ADAPTIVE_REWARD =>
               r = <<task_settings.REWARD_AMOUNT, 1>>
        /\ (task_settings.ADAPTIVE_REWARD /\ PREVIOUS_DATA_FILE[s] = None) =>
               r = <<task_settings.AR_INIT_VALUE, 1>>
        /\ (task_settings.ADAPTIVE_REWARD /\ PREVIOUS_DATA_FILE[s] # None) =>
               /\ r[1] * LastLine(s).reward.calibration =
                     LastLine(s).reward.valve_time * r[2]
               /\ r[2] > 0

\* C3 witness: an adaptive reward derived from a record as a proper fraction
C3_Witness ==
    /\ sphPc = "done" /\ task_settings.ADAPTIVE_REWARD
    /\ PREVIOUS_DATA_FILE[session] # None
    /\ REWARD_AMOUNT[session] = <<1, 2>>

\* C4: _init_stim_gain returns STIM_GAIN when ADAPTIVE_GAIN is off; when on,
\* AG_MIN_VALUE iff a previous record exists with trial_num >= 200, and
\* AG_INIT_VALUE otherwise; nothing else.
C4_InitStimGain ==
    \A s \in Sessions : GainDerived(s) =>
        LET g == STIM_GAIN[s]
            many == /\ PREVIOUS_DATA_FILE[s] # None
                    /\ LastLine(s).trial_num >= 200
        IN
        /\ ~task_settings.ADAPTIVE_GAIN => g = task_settings.STIM_GAIN
        /\ task_settings.ADAPTIVE_GAIN =>
               /\ g \in {task_settings.AG_MIN_VALUE,
                          task_settings.AG_INIT_VALUE}
               /\ (g = task_settings.AG_MIN_VALUE <=> many)
               /\ (~many => g = task_settings.AG_INIT_VALUE)

\* C4 witness: the gain dropped to AG_MIN_VALUE on a record with exactly
\* 200 trials
C4_Witness ==
    /\ sphPc = "done" /\ task_settings.ADAPTIVE_GAIN
    /\ PREVIOUS_DATA_FILE[session] # None
    /\ LastLine(session).trial_num = 200
    /\ STIM_GAIN[session] = task_settings.AG_MIN_VALUE

\* C5: two sessions with the same task settings whose previous data files
\* end in the same record derive the same REWARD_AMOUNT and STIM_GAIN.
C5_OnlyLastRecord ==
    (/\ GainDerived(1) /\ GainDerived(2)
     /\ PREVIOUS_DATA_FILE[1] # None /\ PREVIOUS_DATA_FILE[2] # None
     /\ LastLine(1) = LastLine(2)) =>
        /\ REWARD_AMOUNT[1] = REWARD_AMOUNT[2]
        /\ STIM_GAIN[1] = STIM_GAIN[2]

\* C5 witness: both sessions are derived adaptively from files of two
\* records that agree on the last record and differ in every field of the
\* first
C5_Witness ==
    /\ GainDerived(1) /\ GainDerived(2)
    /\ task_settings.ADAPTIVE_REWARD /\ task_settings.ADAPTIVE_GAIN
    /\ PREVIOUS_DATA_FILE[1] # None /\ PREVIOUS_DATA_FILE[2] # None
    /\ Len(PREVIOUS_DATA_FILE[1][1]) = 2 /\ Len(PREVIOUS_DATA_FILE[2][1]) = 2
    /\ LastLine(1) = LastLine(2)
    /\ PREVIOUS_DATA_FILE[1][1][1].trial_num # PREVIOUS_DATA_FILE[2][1][1].trial_num
    /\ PREVIOUS_DATA_FILE[1][1][1].reward # PREVIOUS_DATA_FILE[2][1][1].reward
    /\ PREVIOUS_DATA_FILE[1][1][1] # LastLine(1)

\* The zip entry of file f of the session folder: its path from the folder
EntryOf(f) == RelPath(f, Folder(variant))

\* C6 (state part): once the function has returned no directory is left
\* directly under the folder, the code zip exists there and is closed, and
\* every file that was inside a removed directory is an entry of the zip
\* under a path that starts with that directory's name; at any time a
\* removed file implies a closed zip holding it, and the regular files
\* directly under the folder are the ones found at entry.
C6_StateAfterSave ==
    /\ zPc = "done" =>
          /\ fsDirs = {} /\ fsFiles = {}
          /\ zipf.state = "closed"
          /\ zipf.path = ZipPath(variant)
          /\ Parent(zipf.path) = Folder(variant)
    /\ \A f \in removed :
          /\ zipf.state = "closed"
          /\ EntryOf(f) \in zipf.entries
          /\ Join(Folder(variant), EntryOf(f)[1]) \notin fsDirs
    /\ fsRegular = regular0

\* C6: the state part always holds, and a step that removes a directory
\* is taken only with the zip closed and leaves the zip as it is.
C6_ZipThenRemove ==
    /\ []C6_StateAfterSave
    /\ [][(\E d \in fsDirs : d \notin fsDirs') =>
            (zipf.state = "closed" /\ zipf' = zipf)]_vars

\* C6 witness: the function returned after removing two folders, one of
\* them with a nested file, next to a regular file that stayed
C6_Witness ==
    /\ zPc = "done" /\ Len(codeDirs) = 2
    /\ \E f \in removed : Len(EntryOf(f)) > 2
    /\ \E f, g \in removed : EntryOf(f)[1] # EntryOf(g)[1]
    /\ fsRegular # {}

\* C7 as claimed: whenever save_session_settings has appended its document,
\* the settings loaded back equal the serialised settings, so the function
\* never ends in an error and its assertion, once reached, holds; also on a
\* later call for the same session.
C7_SettingsRoundTrip ==
    /\ setPc \notin {"JSONDecodeError", "AssertionError"}
    /\ setPc = "assert" =>
          (settings.outcome = "ok" /\ settings.value = save_this)

\* C8 as claimed: update.py <known version>, once finished, has backed up
\* pybpod_projects, then checked out the tag, then updated the submodules,
\* then restored pybpod_projects from the backup, in that order.
C8_VersionBackupCheckoutRestore ==
    (Len(argv) = 1 /\ argv[1] \in RemoteVersions /\ uStatus = "done") =>
        \E i, j, k, l \in 1..Len(ops) :
            /\ i < j /\ j < k /\ k < l
            /\ ops[i] = "backup" /\ ops[j] = "git checkout tag"
            /\ ops[k] = "git submodule update" /\ ops[l] = "restore"

\* The task folder a remote file lies in (<<>> for a file in no task folder)
TaskOf(x) ==
    IF Len(x) >= 5 /\ x[2] = "tasks" /\ x[3] = "/"
      THEN SubSeq(x, 4, Len(x) - 1) ELSE <<>>

\* C9 as claimed: update.py tasks [branch], once finished, has checked out
\* exactly the remote task files whose task folder is not present locally.
C9_ChecksOutMissingTaskFiles ==
    (Len(argv) >= 1 /\ argv[1] = "tasks" /\ uStatus = "done") =>
        repo.files =
            {x \in Range(LsTree(Branch(argv))) :
                TaskOf(x) # <<>> /\ TaskOf(x) \notin local_tasks}

\* C10: update.py without argument runs nothing but the remote update, the
\* version queries and prints, and leaves HEAD, the submodules, the local
\* changes, the stash, the checked-out files, pybpod_projects and the
\* backups as they were.
C10_InfoChangesNothing ==
    Len(argv) = 0 =>
        /\ \A i \in 1..Len(ops) :
              ops[i] \in {"git remote update", "get_current_version",
                          "get_versions", "print"}
        /\ [repo EXCEPT !.fetched = repo0.fetched] = repo0

\* C10 witness: update.py without argument has finished in a checkout with
\* local changes, a stash entry and an old backup, after fetching
C10_Witness ==
    /\ Len(argv) = 0 /\ uStatus = "done"
    /\ Len(ops) = 4 /\ repo.fetched
    /\ repo.dirty /\ repo.stash > 0 /\ repo.home # {}

\* a command line that update.py rejects: one argument that is no help flag,
\* no known version and none of tasks, update, reinstall; or two arguments
\* whose command is not tasks or update or whose branch is no remote branch
Rejected(a) ==
    \/ /\ Len(a) = 1
       /\ a[1] \notin {"-h", "--help", "?"} \cup RemoteVersions
                       \cup {"tasks", "update", "reinstall"}
    \/ /\ Len(a) = 2
       /\ \/ a[1] \notin {"tasks", "update"}
          \/ a[2] \notin RemoteBranches

\* C11: a rejected command line never completes: once its version or branch
\* query has returned the next step raises ValueError, and up to and including
\* the raise nothing but that one query has run (no backup, stash, checkout,
\* submodule update or install) and the checkout is as it was.
C11_RejectsBeforeChanging ==
    Rejected(argv) =>
        /\ uStatus \in {"running", "ValueError"}
        /\ Len(ops) <= 1
        /\ uStatus = "ValueError" => Len(ops) = 1
        /\ (uStatus = "running" /\ Len(ops) = 1) => ENABLED RaiseValueError
        /\ \A i \in 1..Len(ops) : ops[i] \in {"get_versions", "get_branches"}
        /\ repo = repo0
        /\ task_files = <<>>

\* C11 witness: "tasks" with a branch that is no remote branch has raised
\* ValueError in a checkout with local changes
C11_Witness ==
    /\ argv = <<"tasks", "nobranch">> /\ uStatus = "ValueError"
    /\ ops = <<"get_branches">> /\ repo.dirty


\* C12: with exactly one entry in PYBPOD_SUBJECTS the call does not raise
\* and, from the length test on, PYBPOD_SUBJECTS is that entry's decoded
\* [name, uuid]; with no entry or several the length test raises IOError (it
\* is the only way on), the call never gets past it, and
\* PYBPOD_SUBJECT_EXTRA is still the string it was when the call started.
C12_ExactlyOneSubject ==
    /\ Len(subjects0) = 1 =>
          /\ dExc = ""
          /\ dPc = "len" => ENABLED OneSubject /\ ~ENABLED RaiseIOError
          /\ dPc \in {"subject_extra", "return", "returned"} =>
                \E x \in Subjects :
                    /\ subjects0 = <<PyRepr(x)>>
                    /\ PYBPOD_SUBJECTS = PyList(x)
    /\ Len(subjects0) # 1 =>
          /\ dPc \in {"creator", "user_extra", "subjects", "len", "raised"}
          /\ dPc = "len" => ENABLED RaiseIOError /\ ~ENABLED OneSubject
          /\ dPc = "raised" => dExc = "IOError"
          /\ PYBPOD_SUBJECT_EXTRA = subject_extra0
          /\ spc_subject = ""
    /\ dExc = "IOError" =>
          /\ Len(subjects0) # 1
          /\ PYBPOD_SUBJECT_EXTRA = subject_extra0
          /\ errors = <<ErrorMessage(caller)>>

\* C12 witness: the call on two subjects has raised IOError after decoding
\* the creator and the two entries, with PYBPOD_SUBJECT_EXTRA untouched
C12_Witness ==
    /\ dExc = "IOError" /\ dPc = "raised"
    /\ Len(subjects0) = 2 /\ Len(PYBPOD_SUBJECTS) = 2
    /\ PYBPOD_CREATOR \in {PyList(x) : x \in Creators}
    /\ PYBPOD_SUBJECTS[1] \in {PyList(x) : x \in Subjects}
    /\ PYBPOD_SUBJECT_EXTRA = subject_extra0


====
